---- MODULE Spec2Model ----
(***************************************************************************)
(* Announcement endpoints of the High School Management System API        *)
(* (src/backend/routers/announcements.py).                                 *)
(*                                                                         *)
(* Texts are sequences of one-character strings, so that strip(),          *)
(* date.fromisoformat(), date.isoformat(), ObjectId(), str(ObjectId) and   *)
(* the store's string comparison are computed character by character.     *)
(* Python's None is the one-element sequence None below; no input text     *)
(* contains that element.                                                  *)
(***************************************************************************)
EXTENDS Integers, Sequences, FiniteSets, TLC

VARIABLES
    store,      \* announcements_collection: ObjectId value -> document
    created,    \* number of documents the store has inserted so far
    deleted,    \* history: ObjectId values removed by delete_one
    dialect,    \* which date.fromisoformat the interpreter provides
    resp,       \* the HTTP response in flight to the caller
    prev,       \* history: the list results since the last store write
    pend        \* per caller: the handler suspended between two store calls

vars == <<store, created, deleted, dialect, resp, prev, pend>>

\* Most documents the store is asked to insert in one behaviour.
MaxIds == 2

\* Characters in an ObjectId's text form (bson.ObjectId, 12 bytes as hex).
OidLen == 24

None == <<"None">>

----------------------------------------------------------------------------
(* Characters *)

DigitChars == <<"0", "1", "2", "3", "4", "5", "6", "7", "8", "9">>
LowerHex == DigitChars \o <<"a", "b", "c", "d", "e", "f">>
UpperHex == DigitChars \o <<"A", "B", "C", "D", "E", "F">>

IsDigit(c) == \E i \in 1..10 : DigitChars[i] = c
DigitVal(c) == (CHOOSE i \in 1..10 : DigitChars[i] = c) - 1
IsHex(c) == \E i \in 1..16 : LowerHex[i] = c \/ UpperHex[i] = c
HexVal(c) == (CHOOSE i \in 1..16 : LowerHex[i] = c \/ UpperHex[i] = c) - 1
IsSpace(c) == c \in {" ", "\t", "\n"}

\* Code point of the characters that occur in stored dates.
CharCode(c) == IF c = "-" THEN 45 ELSE 48 + DigitVal(c)

RECURSIVE Pad(_, _)
\* n written in decimal, zero-padded to `width` digits ("%04d", "%02d").
Pad(n, width) ==
    IF width = 0 THEN <<>>
    ELSE Pad(n \div 10, width - 1) \o <<DigitChars[(n % 10) + 1]>>

RECURSIVE DecVal(_)
DecVal(s) ==
    IF s = <<>> THEN 0
    ELSE 10 * DecVal(SubSeq(s, 1, Len(s) - 1)) + DigitVal(s[Len(s)])

AllDigits(s) == \A i \in 1..Len(s) : IsDigit(s[i])

----------------------------------------------------------------------------
(* str.strip() *)

RECURSIVE LStrip(_)
LStrip(s) == IF s # <<>> /\ IsSpace(Head(s)) THEN LStrip(Tail(s)) ELSE s

RECURSIVE RStrip(_)
RStrip(s) ==
    IF s # <<>> /\ IsSpace(s[Len(s)]) THEN RStrip(SubSeq(s, 1, Len(s) - 1)) ELSE s

strip(s) == RStrip(LStrip(s))

----------------------------------------------------------------------------
(* datetime.date *)

IsLeap(y) == (y % 4 = 0) /\ ((y % 100 # 0) \/ (y % 400 = 0))

DaysInMonth(y, m) ==
    IF m = 2 THEN (IF IsLeap(y) THEN 29 ELSE 28)
    ELSE IF m \in {4, 6, 9, 11} THEN 30 ELSE 31

ValueError == [ok |-> FALSE, year |-> 0, month |-> 0, day |-> 0]

MkDate(y, m, d) ==
    IF y \in 1..9999 /\ m \in 1..12 /\ d \in 1..DaysInMonth(y, m)
    THEN [ok |-> TRUE, year |-> y, month |-> m, day |-> d]
    ELSE ValueError

\* date.fromisoformat(date_str).  Every interpreter accepts YYYY-MM-DD; from
\* Python 3.11 on the basic form YYYYMMDD is accepted as well ("basic"
\* dialect).  The ISO week forms of 3.11 are not among the inputs drawn here.
fromisoformat(s, d) ==
    IF Len(s) = 10 /\ s[5] = "-" /\ s[8] = "-"
          /\ AllDigits(SubSeq(s, 1, 4)) /\ AllDigits(SubSeq(s, 6, 7))
          /\ AllDigits(SubSeq(s, 9, 10))
    THEN MkDate(DecVal(SubSeq(s, 1, 4)), DecVal(SubSeq(s, 6, 7)), DecVal(SubSeq(s, 9, 10)))
    ELSE IF d = "basic" /\ Len(s) = 8 /\ AllDigits(s)
    THEN MkDate(DecVal(SubSeq(s, 1, 4)), DecVal(SubSeq(s, 5, 6)), DecVal(SubSeq(s, 7, 8)))
    ELSE ValueError

\* date.isoformat(): YYYY-MM-DD, zero-padded.
isoformat(dt) ==
    Pad(dt.year, 4) \o <<"-">> \o Pad(dt.month, 2) \o <<"-">> \o Pad(dt.day, 2)

\* date.__gt__
DateGt(a, b) ==
    \/ a.year > b.year
    \/ a.year = b.year /\ a.month > b.month
    \/ a.year = b.year /\ a.month = b.month /\ a.day > b.day

----------------------------------------------------------------------------
(* bson.ObjectId *)

RECURSIVE Hex(_, _)
Hex(n, width) ==
    IF width = 0 THEN <<>>
    ELSE Hex(n \div 16, width - 1) \o <<LowerHex[(n % 16) + 1]>>

RECURSIVE HexValue(_)
HexValue(s) ==
    IF s = <<>> THEN 0
    ELSE 16 * HexValue(SubSeq(s, 1, Len(s) - 1)) + HexVal(s[Len(s)])

InvalidId == [ok |-> FALSE, value |-> 0]

\* ObjectId(announcement_id): a 24-character hex text of either case.
ObjectId(s) ==
    IF Len(s) = OidLen /\ \A i \in 1..Len(s) : IsHex(s[i])
    THEN [ok |-> TRUE, value |-> HexValue(s)]
    ELSE InvalidId

\* str(announcement["_id"]): 24 lower-case hex characters.
OidStr(oid) == Hex(oid, OidLen)

\* The identifier insert_one assigns to the n+1st inserted document: the
\* store never hands out the same ObjectId twice.  Numbering starts at 0x0a
\* so that the text form holds a letter.
NewObjectId(n) == 10 + n

----------------------------------------------------------------------------
(* pymongo collection operations on announcements_collection *)

insert_one(st, oid, doc) ==
    [x \in DOMAIN st \cup {oid} |-> IF x = oid THEN doc ELSE st[x]]

matched_count(st, oid) == IF oid \in DOMAIN st THEN 1 ELSE 0

update_one_upsert(st, oid, set) ==
    [x \in DOMAIN st \cup {oid} |-> IF x = oid THEN set ELSE st[x]]

update_one_dates_only(st, oid, set) ==
    IF oid \in DOMAIN st
    THEN [st EXCEPT ![oid] = [@ EXCEPT !.start_date = set.start_date,
                                       !.expiration_date = set.expiration_date]]
    ELSE st

\* update_one({"_id": oid}, {"$set": set}): no upsert.
update_one(st, oid, set) ==
    IF oid \in DOMAIN st
    THEN [st EXCEPT ![oid] = [@ EXCEPT !.message = set.message,
                                       !.start_date = set.start_date,
                                       !.expiration_date = set.expiration_date]]
    ELSE st

delete_one_keep(st, oid) == st

delete_one(st, oid) == [x \in DOMAIN st \ {oid} |-> st[x]]

\* String order of the store: binary comparison, shorter prefix first.
RECURSIVE StrLeq(_, _)
StrLeq(a, b) ==
    IF a = <<>> THEN TRUE
    ELSE IF b = <<>> THEN FALSE
    ELSE IF CharCode(Head(a)) # CharCode(Head(b))
    THEN CharCode(Head(a)) < CharCode(Head(b))
    ELSE StrLeq(Tail(a), Tail(b))

\* Order of two values of a sort key: null sorts before every string.
KeyLeq(a, b) ==
    IF a = None THEN TRUE
    ELSE IF b = None THEN FALSE
    ELSE StrLeq(a, b)

KeyLt(a, b) == KeyLeq(a, b) /\ a # b

ActiveQueryNoStart(doc, today) == StrLeq(today, doc.expiration_date)

\* The filter of get_announcements: a comparison operator matches only
\* values of the operand's type, so $lte never matches a null start_date.
ActiveQuery(doc, today) ==
    /\ StrLeq(today, doc.expiration_date)
    /\ \/ doc.start_date = None
       \/ doc.start_date = <<>>
       \/ doc.start_date # None /\ StrLeq(doc.start_date, today)

Orderings(ids) ==
    {s \in [1..Cardinality(ids) -> ids] : \A i, j \in DOMAIN s : i # j => s[i] # s[j]}

SortByExpiration(st, ids) ==
    {s \in Orderings(ids) : \A i, j \in DOMAIN s :
        i < j => KeyLeq(st[s[i]].expiration_date, st[s[j]].expiration_date)}

Unsorted(st, ids) == Orderings(ids)

\* find(...).sort([("expiration_date", 1), ("start_date", 1)]): the cursor
\* orders that the store may produce; documents with equal keys come in any
\* order.
SortByExpirationThenStart(st, ids) ==
    {s \in Orderings(ids) : \A i, j \in DOMAIN s :
        i < j =>
          \/ KeyLt(st[s[i]].expiration_date, st[s[j]].expiration_date)
          \/ /\ st[s[i]].expiration_date = st[s[j]].expiration_date
             /\ KeyLeq(st[s[i]].start_date, st[s[j]].start_date)}

----------------------------------------------------------------------------
(* Helpers of the router *)

HTTPException(status_code, detail) == [status |-> status_code, detail |-> detail]

Ok == [status |-> 200, detail |-> ""]

\* teachers_collection: the documents' _id values.
TeacherDirectory == {<<"mrodriguez">>}

validate_teacher_anyone(teacher_username) == Ok

validate_teacher(teacher_username) ==
    IF teacher_username = None \/ teacher_username = <<>>
    THEN HTTPException(401, "Authentication required for this action")
    ELSE IF teacher_username \notin TeacherDirectory
    THEN HTTPException(401, "Invalid teacher credentials")
    ELSE Ok

FieldLabel(field_name) ==
    IF field_name = "start_date" THEN "start_date must be in YYYY-MM-DD format"
    ELSE "expiration_date must be in YYYY-MM-DD format"

\* _parse_date_or_none: `none` is TRUE for a missing or empty text.
parse_date_or_none(date_str, field_name, d) ==
    IF date_str = None \/ date_str = <<>>
    THEN [exc |-> Ok, none |-> TRUE, date |-> ValueError]
    ELSE LET parsed == fromisoformat(date_str, d)
         IN IF parsed.ok
            THEN [exc |-> Ok, none |-> FALSE, date |-> parsed]
            ELSE [exc |-> HTTPException(400, FieldLabel(field_name)),
                  none |-> FALSE, date |-> ValueError]

serialize_announcement(oid, announcement) ==
    [id |-> OidStr(oid),
     message |-> announcement.message,
     start_date |-> announcement.start_date,
     expiration_date |-> announcement.expiration_date]

NoDoc == [message |-> <<>>, start_date |-> None, expiration_date |-> <<>>]

range_never_rejected(ps, pe) == FALSE

\* `parsed_start and parsed_start > parsed_expiration`
range_rejected(ps, pe) == ~ps.none /\ DateGt(ps.date, pe.date)

\* The validation block shared by create_announcement and
\* update_announcement: the first failing rule, or the document to write.
check_fields(message, start_date, expiration_date, d) ==
    LET msg == strip(message)
        ps == parse_date_or_none(start_date, "start_date", d)
        pe == parse_date_or_none(expiration_date, "expiration_date", d)
    IN IF msg = <<>>
       THEN [exc |-> HTTPException(400, "Message is required"), doc |-> NoDoc]
       ELSE IF ps.exc.status # 200 THEN [exc |-> ps.exc, doc |-> NoDoc]
       ELSE IF pe.exc.status # 200 THEN [exc |-> pe.exc, doc |-> NoDoc]
       ELSE IF pe.none
       THEN [exc |-> HTTPException(400, "expiration_date is required"), doc |-> NoDoc]
       ELSE IF range_rejected(ps, pe)
       THEN [exc |-> HTTPException(400, "expiration_date must be on or after start_date"),
             doc |-> NoDoc]
       ELSE [exc |-> Ok,
             doc |-> [message |-> msg,
                      start_date |-> IF ps.none THEN None ELSE isoformat(ps.date),
                      expiration_date |-> isoformat(pe.date)]]

\* create_announcement up to the store call: the exception raised, or Ok.
create_checks(req, d) ==
    LET auth == validate_teacher(req.teacher_username)
    IN IF auth.status # 200 THEN auth
       ELSE check_fields(req.message, req.start_date, req.expiration_date, d).exc

update_checks_id_first(req, d) ==
    LET auth == validate_teacher(req.teacher_username)
    IN IF auth.status # 200 THEN auth
       ELSE IF ~ObjectId(req.announcement_id).ok
       THEN HTTPException(400, "Invalid announcement id")
       ELSE check_fields(req.message, req.start_date, req.expiration_date, d).exc

\* update_announcement up to the store call.
update_checks(req, d) ==
    LET auth == validate_teacher(req.teacher_username)
        chk == check_fields(req.message, req.start_date, req.expiration_date, d)
    IN IF auth.status # 200 THEN auth
       ELSE IF chk.exc.status # 200 THEN chk.exc
       ELSE IF ~ObjectId(req.announcement_id).ok
       THEN HTTPException(400, "Invalid announcement id")
       ELSE Ok

\* delete_announcement up to the store call.
delete_checks(req) ==
    LET auth == validate_teacher(req.teacher_username)
    IN IF auth.status # 200 THEN auth
       ELSE IF ~ObjectId(req.announcement_id).ok
       THEN HTTPException(400, "Invalid announcement id")
       ELSE Ok

----------------------------------------------------------------------------
(* Requests and responses *)

Request(teacher_username, announcement_id, message, start_date, expiration_date) ==
    [teacher_username |-> teacher_username, announcement_id |-> announcement_id,
     message |-> message, start_date |-> start_date,
     expiration_date |-> expiration_date]

NoReq == Request(None, None, None, None, None)

\* annOps counts the calls made on announcements_collection by the request.
Response(op, req, today, exc, body, annOps) ==
    [op |-> op, req |-> req, today |-> today, status |-> exc.status,
     detail |-> exc.detail, body |-> body, annOps |-> annOps]

NoResp == Response("none", NoReq, <<>>, Ok, <<>>, 0)

Unseen == [seen |-> FALSE, today |-> <<>>, body |-> <<>>]

\* The result of a list call that the caller has received.
Seen(today, body) == [seen |-> TRUE, today |-> today, body |-> body]

NoPrev == [all |-> Unseen, active |-> Unseen]

Idle == [op |-> "idle", req |-> NoReq, oid |-> 0]

Callers == {"c1", "c2"}

Serialized(st, order) ==
    [i \in 1..Len(order) |-> serialize_announcement(order[i], st[order[i]])]

----------------------------------------------------------------------------
(* Inputs *)

Sep30 == MkDate(2025, 9, 30)
Oct01 == MkDate(2025, 10, 1)
Oct02 == MkDate(2025, 10, 2)

\* Values of date.today() at the time of a call.
Days == {Sep30, Oct01, Oct02}

Teachers == {None, <<>>, <<"ghost">>, <<"mrodriguez">>}

Messages == {<<" ", " ">>, <<" ", "a", " ">>, <<"b">>}

BasicSep30 == <<"2", "0", "2", "5", "0", "9", "3", "0">>
Unpadded == <<"2", "0", "2", "5", "-", "9", "-", "3", "0">>
Feb30 == <<"2", "0", "2", "5", "-", "0", "2", "-", "3", "0">>

ExpirationTexts == {<<>>, isoformat(Sep30), isoformat(Oct01), BasicSep30, Unpadded}

StartTexts == {None, <<>>, isoformat(Oct01), Feb30}

UpperOid(oid) ==
    LET t == OidStr(oid)
    IN [i \in 1..Len(t) |->
          IF \E k \in 1..16 : LowerHex[k] = t[i]
          THEN UpperHex[CHOOSE k \in 1..16 : LowerHex[k] = t[i]]
          ELSE t[i]]

NotAnId == <<"n", "o", "t", "-", "a", "n", "-", "i", "d">>

\* The identifiers the store hands out, one that it never does, the first in
\* upper case, and a malformed one.
IdTexts ==
    {OidStr(NewObjectId(n)) : n \in 0..MaxIds}
        \cup {UpperOid(NewObjectId(0)), NotAnId}

----------------------------------------------------------------------------
(* The handlers, each run to completion as one step *)

\* A request is served once the previous response has left.
Ready == resp.op = "none"

Reject(op, req, exc, annOps) ==
    /\ resp' = Response(op, req, <<>>, exc, <<>>, annOps)
    /\ UNCHANGED <<store, created, deleted, prev>>

\* GET /announcements
get_announcements(day) ==
    LET today == isoformat(day)
        ids == {x \in DOMAIN store : ActiveQuery(store[x], today)}
    IN /\ \E order \in SortByExpiration(store, ids) :
             resp' = Response("list_active", NoReq, today, Ok,
                              Serialized(store, order), 1)
       /\ UNCHANGED <<store, created, deleted, dialect, prev, pend>>

\* GET /announcements/manage
get_all_announcements(teacher_username) ==
    LET req == Request(teacher_username, None, None, None, None)
        auth == validate_teacher(teacher_username)
    IN /\ IF auth.status # 200
          THEN Reject("list_all", req, auth, 0)
          ELSE \E order \in SortByExpirationThenStart(store, DOMAIN store) :
                  /\ resp' = Response("list_all", req, <<>>, Ok,
                                      Serialized(store, order), 1)
                  /\ UNCHANGED <<store, created, deleted, prev>>
       /\ UNCHANGED <<dialect, pend>>

\* POST /announcements
create_announcement(message, expiration_date, start_date, teacher_username) ==
    LET req == Request(teacher_username, None, message, start_date, expiration_date)
        exc == create_checks(req, dialect)
        doc == check_fields(req.message, req.start_date, req.expiration_date, dialect).doc
        oid == NewObjectId(created)
    IN /\ IF exc.status # 200
          THEN Reject("create", req, exc, 0)
          ELSE /\ created < MaxIds
               /\ store' = insert_one(store, oid, doc)
               /\ created' = created + 1
               /\ resp' = Response("create", req, <<>>, Ok,
                                   <<serialize_announcement(oid, store'[oid])>>, 2)
               /\ prev' = NoPrev
               /\ UNCHANGED deleted
       /\ UNCHANGED <<dialect, pend>>

\* PUT /announcements/{announcement_id}
update_announcement(announcement_id, message, expiration_date, start_date, teacher_username) ==
    LET req == Request(teacher_username, announcement_id, message, start_date,
                       expiration_date)
        exc == update_checks(req, dialect)
        doc == check_fields(req.message, req.start_date, req.expiration_date, dialect).doc
        oid == ObjectId(req.announcement_id).value
    IN /\ IF exc.status # 200
          THEN Reject("update", req, exc, 0)
          ELSE /\ store' = update_one(store, oid, doc)
               /\ IF matched_count(store, oid) = 0
                  THEN /\ resp' = Response("update", req, <<>>,
                                    HTTPException(404, "Announcement not found"), <<>>, 1)
                       /\ prev' = prev
                  ELSE /\ resp' = Response("update", req, <<>>, Ok,
                                    <<serialize_announcement(oid, store'[oid])>>, 2)
                       /\ prev' = NoPrev
               /\ UNCHANGED <<created, deleted>>
       /\ UNCHANGED <<dialect, pend>>

\* DELETE /announcements/{announcement_id}
delete_announcement(announcement_id, teacher_username) ==
    LET req == Request(teacher_username, announcement_id, None, None, None)
        exc == delete_checks(req)
        oid == ObjectId(req.announcement_id).value
    IN /\ IF exc.status # 200
          THEN Reject("delete", req, exc, 0)
          ELSE /\ store' = delete_one(store, oid)
               /\ IF matched_count(store, oid) = 0
                  THEN /\ resp' = Response("delete", req, <<>>,
                                    HTTPException(404, "Announcement not found"), <<>>, 1)
                       /\ UNCHANGED <<deleted, prev>>
                  ELSE /\ resp' = Response("delete", req, <<>>,
                                    [status |-> 200, detail |-> "Announcement deleted"],
                                    <<>>, 1)
                       /\ deleted' = deleted \cup {oid}
                       /\ prev' = NoPrev
               /\ UNCHANGED created
       /\ UNCHANGED <<dialect, pend>>

\* The caller receives the response.
Deliver ==
    /\ resp.op # "none"
    /\ resp' = NoResp
    /\ UNCHANGED <<store, created, deleted, dialect, prev, pend>>

\* The caller receives the response and a successful list result is noted.
DeliverSeen ==
    /\ resp.op # "none"
    /\ resp' = NoResp
    /\ prev' = IF resp.op = "list_all" /\ resp.status = 200
               THEN [prev EXCEPT !.all = Seen(<<>>, resp.body)]
               ELSE IF resp.op = "list_active"
               THEN [prev EXCEPT !.active = Seen(resp.today, resp.body)]
               ELSE prev
    /\ UNCHANGED <<store, created, deleted, dialect, pend>>

Init ==
    /\ store = <<>>
    /\ created = 0
    /\ deleted = {}
    /\ dialect \in {"strict", "basic"}
    /\ resp = NoResp
    /\ prev = NoPrev
    /\ pend = [c \in Callers |-> Idle]

ListActive ==
    /\ Ready
    /\ \E day \in Days : get_announcements(day)

ListAll ==
    /\ Ready
    /\ \E t \in Teachers : get_all_announcements(t)

Create ==
    /\ Ready
    /\ \E t \in Teachers, m \in Messages, s \in StartTexts, e \in ExpirationTexts :
           create_announcement(m, e, s, t)

Update ==
    /\ Ready
    /\ \E t \in Teachers, id \in IdTexts, m \in Messages, s \in StartTexts,
          e \in ExpirationTexts :
           update_announcement(id, m, e, s, t)

Delete ==
    /\ Ready
    /\ \E t \in Teachers, id \in IdTexts :
           delete_announcement(id, t)

Next == ListActive \/ ListAll \/ Create \/ Update \/ Delete \/ Deliver

Spec == Init /\ [][Next]_vars

----------------------------------------------------------------------------
(* Reads observed: the same handlers, with each delivered list result noted *)

Teacher == <<"mrodriguez">>

ReadMessages == {<<" ", "a", " ">>, <<"b">>}
ReadStartTexts == {None, isoformat(Oct01)}
ReadExpirationTexts == {isoformat(Sep30), isoformat(Oct01)}
ReadIdTexts == {OidStr(NewObjectId(n)) : n \in 0..MaxIds}

ListActiveSeen ==
    /\ Ready
    /\ \E day \in Days : get_announcements(day)

ListAllSeen ==
    /\ Ready
    /\ \E t \in {None, Teacher} : get_all_announcements(t)

CreateValid ==
    /\ Ready
    /\ \E m \in ReadMessages, s \in ReadStartTexts, e \in ReadExpirationTexts :
           create_announcement(m, e, s, Teacher)

UpdateValid ==
    /\ Ready
    /\ \E id \in ReadIdTexts, m \in ReadMessages, s \in ReadStartTexts,
       e \in ReadExpirationTexts :
           update_announcement(id, m, e, s, Teacher)

DeleteValid ==
    /\ Ready
    /\ \E id \in ReadIdTexts : delete_announcement(id, Teacher)

NextReads ==
    ListActiveSeen \/ ListAllSeen \/ CreateValid \/ UpdateValid \/ DeleteValid
        \/ DeliverSeen

SpecReads == Init /\ [][NextReads]_vars

----------------------------------------------------------------------------
(* Concurrent callers: create and update make two store calls, and another
   caller's request may be served between them *)

InternalServerError == HTTPException(500, "Internal Server Error")

\* create_announcement up to and including insert_one.
begin_create(c, message, expiration_date, start_date, teacher_username) ==
    LET req == Request(teacher_username, None, message, start_date, expiration_date)
        exc == create_checks(req, dialect)
        doc == check_fields(req.message, req.start_date, req.expiration_date, dialect).doc
        oid == NewObjectId(created)
    IN /\ pend[c].op = "idle"
       /\ IF exc.status # 200
          THEN Reject("create", req, exc, 0) /\ UNCHANGED pend
          ELSE /\ created < MaxIds
               /\ store' = insert_one(store, oid, doc)
               /\ created' = created + 1
               /\ pend' = [pend EXCEPT ![c] = [op |-> "create", req |-> req, oid |-> oid]]
               /\ prev' = NoPrev
               /\ UNCHANGED <<deleted, resp>>
       /\ UNCHANGED dialect

\* update_announcement up to and including update_one.
begin_update(c, announcement_id, message, expiration_date, start_date, teacher_username) ==
    LET req == Request(teacher_username, announcement_id, message, start_date,
                       expiration_date)
        exc == update_checks(req, dialect)
        doc == check_fields(req.message, req.start_date, req.expiration_date, dialect).doc
        oid == ObjectId(req.announcement_id).value
    IN /\ pend[c].op = "idle"
       /\ IF exc.status # 200
          THEN Reject("update", req, exc, 0) /\ UNCHANGED pend
          ELSE /\ store' = update_one(store, oid, doc)
               /\ IF matched_count(store, oid) = 0
                  THEN /\ resp' = Response("update", req, <<>>,
                                    HTTPException(404, "Announcement not found"), <<>>, 1)
                       /\ UNCHANGED <<pend, prev>>
                  ELSE /\ pend' = [pend EXCEPT ![c] =
                                      [op |-> "update", req |-> req, oid |-> oid]]
                       /\ prev' = NoPrev
                       /\ UNCHANGED resp
               /\ UNCHANGED <<created, deleted>>
       /\ UNCHANGED dialect

\* find_one({"_id": ...}) and _serialize_announcement: find_one returns None
\* for a document that is gone, and subscripting None raises TypeError.
read_back(c) ==
    LET p == pend[c]
    IN /\ p.op # "idle"
       /\ resp' = IF p.oid \in DOMAIN store
                  THEN Response(p.op, p.req, <<>>, Ok,
                                <<serialize_announcement(p.oid, store[p.oid])>>, 2)
                  ELSE Response(p.op, p.req, <<>>, InternalServerError, <<>>, 2)
       /\ pend' = [pend EXCEPT ![c] = Idle]
       /\ UNCHANGED <<store, created, deleted, dialect, prev>>

ConcMessages == {<<" ", "a", " ">>, <<"b">>}
ConcExpirationTexts == {isoformat(Sep30), isoformat(Oct01)}
ConcIdTexts == {OidStr(NewObjectId(n)) : n \in 0..(MaxIds - 1)}

BeginCreate ==
    /\ Ready
    /\ \E c \in Callers, m \in ConcMessages, e \in ConcExpirationTexts :
           begin_create(c, m, e, None, Teacher)

BeginUpdate ==
    /\ Ready
    /\ \E c \in Callers, id \in ConcIdTexts, m \in ConcMessages, e \in ConcExpirationTexts :
           begin_update(c, id, m, e, None, Teacher)

ReadBack ==
    /\ Ready
    /\ \E c \in Callers : read_back(c)

DeleteConc ==
    /\ Ready
    /\ \E id \in ConcIdTexts : delete_announcement(id, Teacher)

ListAllConc == Ready /\ get_all_announcements(Teacher)

NextConc ==
    BeginCreate \/ BeginUpdate \/ ReadBack \/ DeleteConc \/ ListAllConc \/ Deliver

SpecConc == Init /\ [][NextConc]_vars

----------------------------------------------------------------------------
(* Vocabulary of the properties *)

\* The error taxonomy, as status code and detail.
Unauthenticated == HTTPException(401, "Authentication required for this action")
InvalidCredentials == HTTPException(401, "Invalid teacher credentials")
EmptyMessage == HTTPException(400, "Message is required")
InvalidStartFormat == HTTPException(400, "start_date must be in YYYY-MM-DD format")
InvalidExpirationFormat == HTTPException(400, "expiration_date must be in YYYY-MM-DD format")
MissingExpiration == HTTPException(400, "expiration_date is required")
InvalidDateRange == HTTPException(400, "expiration_date must be on or after start_date")
InvalidIdentifier == HTTPException(400, "Invalid announcement id")
NotFound == HTTPException(404, "Announcement not found")

Errors ==
    {Unauthenticated, InvalidCredentials, EmptyMessage, InvalidStartFormat,
     InvalidExpirationFormat, MissingExpiration, InvalidDateRange,
     InvalidIdentifier, NotFound}

Outcome(r) == HTTPException(r.status, r.detail)

Absent(text) == text = None \/ text = <<>>

\* The calendar date a stored or returned text denotes.
DateOf(text) == fromisoformat(text, "strict")

\* The calendar date a request text denotes to this interpreter.
Given(text) == fromisoformat(text, dialect)

OnOrBefore(a, b) ==
    a.year * 10000 + a.month * 100 + a.day <= b.year * 10000 + b.month * 100 + b.day

IdsIn(body) == {ObjectId(body[i].id).value : i \in 1..Len(body)}

Mutating == {"create", "update", "delete"}

----------------------------------------------------------------------------
(* C1 *)

WellFormed(doc) ==
    /\ doc.message # <<>>
    /\ strip(doc.message) = doc.message
    /\ ~Absent(doc.expiration_date)
    /\ DateOf(doc.expiration_date).ok
    /\ \/ doc.start_date = None
       \/ /\ DateOf(doc.start_date).ok
          /\ OnOrBefore(DateOf(doc.start_date), DateOf(doc.expiration_date))

\* C1: whatever requests were served, every stored announcement has a
\* non-empty trimmed message, an expiration date, and no start date or a
\* start date on or before the expiration date.
C1_StoredRecordsWellFormed == \A x \in DOMAIN store : WellFormed(store[x])

\* A record with a start date is stored and a request that violates the
\* date range has just been refused.
C1_Witness ==
    /\ \E x \in DOMAIN store : store[x].start_date # None
    /\ resp.op \in {"create", "update"}
    /\ Outcome(resp) = InvalidDateRange

----------------------------------------------------------------------------
(* C2 *)

ActiveOn(doc, today) ==
    /\ OnOrBefore(DateOf(today), DateOf(doc.expiration_date))
    /\ Absent(doc.start_date) \/ OnOrBefore(DateOf(doc.start_date), DateOf(today))

\* C2: list-active answers 200 with exactly the stored records whose
\* expiration date is today or later and whose start date is absent or
\* today or earlier, each once.
C2_ListActiveExact ==
    resp.op = "list_active" =>
        /\ resp.status = 200
        /\ Len(resp.body) = Cardinality(IdsIn(resp.body))
        /\ IdsIn(resp.body) = {x \in DOMAIN store : ActiveOn(store[x], resp.today)}
        /\ \A i \in 1..Len(resp.body) :
              resp.body[i] =
                  serialize_announcement(ObjectId(resp.body[i].id).value,
                                         store[ObjectId(resp.body[i].id).value])

\* list-active returns one record and leaves out another that has not
\* started yet.
C2_Witness ==
    /\ resp.op = "list_active"
    /\ Len(resp.body) = 1
    /\ \E x \in DOMAIN store :
          /\ x \notin IdsIn(resp.body)
          /\ store[x].start_date # None
          /\ ~OnOrBefore(DateOf(store[x].start_date), DateOf(resp.today))

----------------------------------------------------------------------------
(* C3 *)

\* C3: list-all, create, update and delete answer Unauthenticated when the
\* teacher identifier is missing or empty and InvalidCredentials when it is
\* not in the directory, having made no call on the announcement store;
\* list-active answers 200 without an identifier.
C3_AuthenticationGuard ==
    /\ resp.op \in Mutating \cup {"list_all"} =>
          /\ Absent(resp.req.teacher_username) =>
                Outcome(resp) = Unauthenticated /\ resp.annOps = 0
          /\ ~Absent(resp.req.teacher_username)
                /\ resp.req.teacher_username \notin TeacherDirectory =>
                Outcome(resp) = InvalidCredentials /\ resp.annOps = 0
    /\ resp.op = "list_active" =>
          resp.req.teacher_username = None /\ resp.status = 200

\* A delete of an existing announcement by an unknown teacher is refused.
C3_Witness ==
    /\ resp.op = "delete"
    /\ resp.req.teacher_username = <<"ghost">>
    /\ ObjectId(resp.req.announcement_id).value \in DOMAIN store
    /\ Outcome(resp) = InvalidCredentials

----------------------------------------------------------------------------
(* C4 *)

\* C4: a create, update or delete that answers with an error of the
\* taxonomy leaves the announcement store as it was.
C4_ErrorsChangeNothing ==
    [][(resp'.op \in Mutating /\ Outcome(resp') \in Errors) =>
          store' = store /\ created' = created]_vars

\* An update of a well-formed identifier that is not stored answers
\* NotFound while other records are stored.
C4_Witness ==
    /\ resp.op = "update"
    /\ Outcome(resp) = NotFound
    /\ store # <<>>

----------------------------------------------------------------------------
(* C5 *)

Written(doc, req) ==
    /\ doc.message = strip(req.message)
    /\ DateOf(doc.expiration_date) = Given(req.expiration_date)
    /\ IF Absent(req.start_date)
       THEN doc.start_date = None
       ELSE doc.start_date # None /\ DateOf(doc.start_date) = Given(req.start_date)

\* C5: a successful update of X leaves the set of identifiers and every
\* other record as they were, and every list-all of the resulting store
\* shows X with the message and dates of the request.
C5_UpdateFrame ==
    [][(resp'.op = "update" /\ resp'.status = 200) =>
          LET x == ObjectId(resp'.req.announcement_id).value
          IN /\ x \in DOMAIN store
             /\ DOMAIN store' = DOMAIN store
             /\ \A y \in DOMAIN store \ {x} : store'[y] = store[y]
             /\ \A order \in SortByExpirationThenStart(store', DOMAIN store') :
                   \E i \in 1..Len(order) :
                      /\ Serialized(store', order)[i].id = OidStr(x)
                      /\ Written(Serialized(store', order)[i], resp'.req)
                      /\ \A j \in 1..Len(order) :
                            Serialized(store', order)[j].id = OidStr(x) => j = i]_vars

\* An update has changed the message of one of two stored records.
C5_Witness ==
    /\ resp.op = "update"
    /\ resp.status = 200
    /\ Cardinality(DOMAIN store) = 2
    /\ \E x, y \in DOMAIN store : store[x].message # store[y].message

----------------------------------------------------------------------------
(* C6 *)

\* C6: a deleted identifier is never in the store again and never in a
\* list result, and a delete of a well-formed identifier that is not
\* stored answers NotFound.
C6_DeletedStaysDeleted ==
    /\ [](/\ deleted \cap DOMAIN store = {}
          /\ resp.op \in {"list_active", "list_all"} =>
                IdsIn(resp.body) \cap deleted = {})
    /\ [][(/\ resp'.op = "delete"
           /\ resp'.req.teacher_username \in TeacherDirectory
           /\ ObjectId(resp'.req.announcement_id).ok
           /\ ObjectId(resp'.req.announcement_id).value \notin DOMAIN store)
          => Outcome(resp') = NotFound]_vars

\* The second delete of an identifier answers NotFound after a later
\* create has added a record.
C6_Witness ==
    /\ resp.op = "delete"
    /\ Outcome(resp) = NotFound
    /\ ObjectId(resp.req.announcement_id).value \in deleted
    /\ store # <<>>

----------------------------------------------------------------------------
(* C8 *)

\* C8: a successful create returns the request's expiration_date, the
\* trimmed message, a null start_date exactly when none was supplied, and
\* the identifier of a stored record with those values.
C8_CreateEchoesRequest ==
    (resp.op = "create" /\ resp.status = 200) =>
        LET obj == resp.body[1]
            oid == ObjectId(obj.id).value
        IN /\ obj.expiration_date = resp.req.expiration_date
           /\ obj.message = strip(resp.req.message)
           /\ obj.start_date = None <=> Absent(resp.req.start_date)
           /\ oid \in DOMAIN store
           /\ serialize_announcement(oid, store[oid]) = obj

----------------------------------------------------------------------------
(* C10 *)

Unparseable(text) == ~Absent(text) /\ ~Given(text).ok

\* The first rule, in the stated precedence, that an update request breaks.
FirstBroken(req, st) ==
    IF Absent(req.teacher_username) THEN Unauthenticated
    ELSE IF req.teacher_username \notin TeacherDirectory THEN InvalidCredentials
    ELSE IF strip(req.message) = <<>> THEN EmptyMessage
    ELSE IF Unparseable(req.start_date) THEN InvalidStartFormat
    ELSE IF Unparseable(req.expiration_date) THEN InvalidExpirationFormat
    ELSE IF Absent(req.expiration_date) THEN MissingExpiration
    ELSE IF ~Absent(req.start_date)
            /\ ~OnOrBefore(Given(req.start_date), Given(req.expiration_date))
    THEN InvalidDateRange
    ELSE IF ~ObjectId(req.announcement_id).ok THEN InvalidIdentifier
    ELSE IF ObjectId(req.announcement_id).value \notin DOMAIN st THEN NotFound
    ELSE Ok

\* C10: an update reports the first broken rule in the order
\* authentication, message, start format, expiration format, missing
\* expiration, date range, identifier, existence; a malformed identifier is
\* reported only for an authenticated caller with valid message and dates.
C10_UpdateErrorPrecedence ==
    resp.op = "update" =>
        /\ Outcome(resp) = FirstBroken(resp.req, store)
        /\ Outcome(resp) = InvalidIdentifier =>
              /\ resp.req.teacher_username \in TeacherDirectory
              /\ strip(resp.req.message) # <<>>
              /\ ~Unparseable(resp.req.start_date)
              /\ Given(resp.req.expiration_date).ok

\* A request with a malformed identifier and a blank message is answered
\* EmptyMessage.
C10_Witness ==
    /\ resp.op = "update"
    /\ ~ObjectId(resp.req.announcement_id).ok
    /\ strip(resp.req.message) = <<>>
    /\ resp.req.teacher_username \in TeacherDirectory
    /\ Outcome(resp) = EmptyMessage

----------------------------------------------------------------------------
(* C7 *)

Objects(body) == {body[i] : i \in 1..Len(body)}

Tied(body, withStart) ==
    \E i, j \in 1..Len(body) :
        /\ i # j
        /\ body[i].expiration_date = body[j].expiration_date
        /\ withStart => body[i].start_date = body[j].start_date

\* C7 as stated: a list call returns the very result that the previous
\* call of the same operation returned when no write came between, and no
\* list call changes the store.
C7_ReadsRepeat ==
    /\ [](/\ (resp.op = "list_all" /\ resp.status = 200 /\ prev.all.seen) =>
                resp.body = prev.all.body
          /\ (resp.op = "list_active" /\ prev.active.seen) =>
                resp.body = prev.active.body)
    /\ [][resp'.op \in {"list_all", "list_active"} => store' = store]_vars

\* C7 amended: with no write in between, list-all returns the same records
\* as the previous list-all, and list-active the same records as the
\* previous list-active made on the same date; the order is the same too
\* unless two returned records tie on the sort keys.  No list call changes
\* the store.
C7_ReadsRepeatSameDay ==
    /\ [](/\ (resp.op = "list_all" /\ resp.status = 200 /\ prev.all.seen) =>
                /\ Objects(resp.body) = Objects(prev.all.body)
                /\ Len(resp.body) = Len(prev.all.body)
                /\ ~Tied(resp.body, TRUE) => resp.body = prev.all.body
          /\ (resp.op = "list_active" /\ prev.active.seen
                 /\ resp.today = prev.active.today) =>
                /\ Objects(resp.body) = Objects(prev.active.body)
                /\ Len(resp.body) = Len(prev.active.body)
                /\ ~Tied(resp.body, FALSE) => resp.body = prev.active.body)
    /\ [][resp'.op \in {"list_all", "list_active"} =>
             store' = store /\ created' = created]_vars

\* A second list-active on the same date returns the two stored records in
\* the order of the first, and a list-all has been seen too.
C7_Witness ==
    /\ resp.op = "list_active"
    /\ prev.active.seen
    /\ prev.active.today = resp.today
    /\ prev.all.seen
    /\ Len(resp.body) = 2
    /\ ~Tied(resp.body, FALSE)

----------------------------------------------------------------------------
(* C9 *)

\* C9: under any interleaving a successful create or update returns the
\* message and dates it wrote itself, and neither fails once its write is
\* in the store.
C9_ReadBackIsOwnWrite ==
    resp.op \in {"create", "update"} =>
        /\ Outcome(resp) # InternalServerError
        /\ resp.status = 200 => Written(resp.body[1], resp.req)

====
